---- MODULE Spec2Model ----
(***************************************************************************)
(* Model of projectDiffService (project-diff.service.ts): the structural   *)
(* difference between two project states (flows, connections, tables).     *)
(*                                                                         *)
(* JavaScript strings that the code takes apart (piece versions, auth) are *)
(* sequences of one-character strings; the value `undefined` of such a     *)
(* field is the one-element sequence Undefined, which is no string.        *)
(* An optional collection (connections, tables) is a record field that is  *)
(* present or absent.                                                      *)
(***************************************************************************)
EXTENDS Integers, Sequences, FiniteSets, TLC

VARIABLES
    currentState,          \* diff's parameter currentState
    newState,              \* diff's parameter newState
    pc,                    \* position of the running call
    createFlowOperation,   \* diff: const createFlowOperation
    deleteFlowOperation,   \* diff: const deleteFlowOperation
    newStateFiles,         \* findFlowsToUpdate: const newStateFiles
    taskResult,            \* Promise.all: the result slot of each mapped task
    completed,             \* the tasks in the order in which they completed
    result,                \* the DiffState returned by diff
    args,                  \* arguments of a call of a pure function
    ret                    \* what that call returned

vars == <<currentState, newState, pc, createFlowOperation, deleteFlowOperation,
          newStateFiles, taskResult, completed, result, args, ret>>

-----------------------------------------------------------------------------
(* Bounds of the model *)

MaxNum == 2
MaxEntities == 2
MaxSteps == 2
MaxFields == 2

-----------------------------------------------------------------------------
(* Values *)

Undefined == <<"undefined">>
Null == [null |-> TRUE]
Idle == <<>>

\* isNil of a string-valued field
isNil(v) == v = Undefined

\* Array.prototype.find: the first element that passes, or undefined
NotFound == [found |-> FALSE]

find(s, Test(_)) ==
    IF \E i \in DOMAIN s : Test(s[i])
    THEN [found |-> TRUE,
          value |-> s[CHOOSE i \in DOMAIN s :
                          Test(s[i]) /\ \A j \in 1..(i - 1) : ~Test(s[j])]]
    ELSE NotFound

\* Array.prototype.filter
filter(s, Test(_)) ==
    LET F[i \in 0..Len(s)] ==
            IF i = 0 THEN <<>>
            ELSE IF Test(s[i]) THEN Append(F[i - 1], s[i]) ELSE F[i - 1]
    IN F[Len(s)]

\* Array.prototype.map
map(s, Op(_)) == [i \in DOMAIN s |-> Op(s[i])]

\* JSON.stringify of a string, as a sequence of tokens
Str(s) == <<"\"">> \o s \o <<"\"">>

-----------------------------------------------------------------------------
(* Version strings: flowPieceUtil.getExactVersion, semver.parse,           *)
(* isSameVersion                                                           *)

Digits == <<"0", "1", "2", "3", "4", "5", "6", "7", "8", "9">>

IsDigit(c) == \E d \in DOMAIN Digits : Digits[d] = c

DigitVal(c) == (CHOOSE d \in DOMAIN Digits : Digits[d] = c) - 1

RECURSIVE NumStr(_)
NumStr(n) ==
    IF n < 10 THEN <<Digits[n + 1]>>
    ELSE NumStr(n \div 10) \o <<Digits[(n % 10) + 1]>>

\* the text of the semantic version major.minor.patch
Version(major, minor, patch) ==
    NumStr(major) \o <<".">> \o NumStr(minor) \o <<".">> \o NumStr(patch)

RECURSIVE NumVal(_)
NumVal(s) ==
    IF s = <<>> THEN 0
    ELSE 10 * NumVal(SubSeq(s, 1, Len(s) - 1)) + DigitVal(s[Len(s)])

\* a numeric identifier of a semantic version: 0|[1-9]\d*
IsNumericIdentifier(s) ==
    /\ s # <<>>
    /\ \A i \in DOMAIN s : IsDigit(s[i])
    /\ (Len(s) > 1 => s[1] # "0")

\* the pieces of s between the dots
RECURSIVE SplitDots(_)
SplitDots(s) ==
    IF \A i \in DOMAIN s : s[i] # "."
    THEN <<s>>
    ELSE LET d == CHOOSE i \in DOMAIN s : s[i] = "." /\ \A j \in 1..(i - 1) : s[j] # "."
         IN <<SubSeq(s, 1, d - 1)>> \o SplitDots(SubSeq(s, d + 1, Len(s)))

getExactVersion(v) ==
    IF v # <<>> /\ v[1] \in {"^", "~"} THEN Tail(v) ELSE v

semverParse(v) ==
    LET parts == SplitDots(v)
    IN IF Len(parts) = 3 /\ \A i \in 1..3 : IsNumericIdentifier(parts[i])
       THEN [major |-> NumVal(parts[1]), minor |-> NumVal(parts[2]),
             patch |-> NumVal(parts[3])]
       ELSE Null

\* variant: majors alone compared, also below 1.0.0
isSameVersionIgnoringMinor(versionOne, versionTwo) ==
    LET cleanedVersionOne == getExactVersion(versionOne)
        cleanedVersionTwo == getExactVersion(versionTwo)
        versionOneObj == semverParse(cleanedVersionOne)
        versionTwoObj == semverParse(cleanedVersionTwo)
    IN IF versionOneObj = Null \/ versionTwoObj = Null
       THEN cleanedVersionOne = cleanedVersionTwo
       ELSE versionOneObj.major = versionTwoObj.major

\* variant: the fallback compares with the uncleaned versionTwo
isSameVersionRawFallback(versionOne, versionTwo) ==
    LET cleanedVersionOne == getExactVersion(versionOne)
        cleanedVersionTwo == getExactVersion(versionTwo)
        versionOneObj == semverParse(cleanedVersionOne)
        versionTwoObj == semverParse(cleanedVersionTwo)
    IN IF versionOneObj = Null \/ versionTwoObj = Null
       THEN cleanedVersionOne = versionTwo
       ELSE IF versionOneObj.major >= 1 \/ versionTwoObj.major >= 1
            THEN versionOneObj.major = versionTwoObj.major
            ELSE /\ versionOneObj.major = versionTwoObj.major
                 /\ versionOneObj.minor = versionTwoObj.minor

isSameVersion(versionOne, versionTwo) ==
    LET cleanedVersionOne == getExactVersion(versionOne)
        cleanedVersionTwo == getExactVersion(versionTwo)
        versionOneObj == semverParse(cleanedVersionOne)
        versionTwoObj == semverParse(cleanedVersionTwo)
    IN IF versionOneObj = Null \/ versionTwoObj = Null
       THEN cleanedVersionOne = cleanedVersionTwo
       ELSE IF versionOneObj.major >= 1 \/ versionTwoObj.major >= 1
            THEN versionOneObj.major = versionTwoObj.major
            ELSE /\ versionOneObj.major = versionTwoObj.major
                 /\ versionOneObj.minor = versionTwoObj.minor

-----------------------------------------------------------------------------
(* Flow versions: a trigger graph is the sequence of its steps, the trigger *)
(* first; a step is [name, type, pieceVersion, auth, inputUiInfo], the last *)
(* three being settings.pieceVersion, settings.input.auth and               *)
(* settings.inputUiInfo.                                                    *)

PieceTypes == {"PIECE", "PIECE_TRIGGER"}

DEFAULT_SAMPLE_DATA_SETTINGS == <<"d", "e", "f">>

\* flowStructureUtil.getAllSteps: the steps of the graph in walking order
getAllSteps(trigger) == trigger

\* flowStructureUtil.transferFlow: the flow version with every step replaced
transferFlow(flowVersion, transferFunction(_)) ==
    [flowVersion EXCEPT !.trigger = map(flowVersion.trigger, transferFunction)]

\* the latest compatible form of a pinned piece version
getMostRecentPatchVersion(pieceVersion) ==
    IF pieceVersion = Undefined \/ pieceVersion = <<>> THEN pieceVersion
    ELSE IF pieceVersion[1] \in {"^", "~"} THEN pieceVersion
    ELSE IF semverParse(pieceVersion) # Null /\ semverParse(pieceVersion).major = 0
         THEN <<"~">> \o pieceVersion
         ELSE <<"^">> \o pieceVersion

upgradeStep(step) ==
    IF step.type \in PieceTypes
    THEN [step EXCEPT !.pieceVersion = getMostRecentPatchVersion(@)]
    ELSE step

makeFlowAutoUpgradable(flowVersion) == transferFlow(flowVersion, upgradeStep)

\* JSON.stringify of a step graph from step i on: a key whose value is
\* undefined is left out
RECURSIVE stringifySteps(_, _)
stringifySteps(steps, i) ==
    LET step == steps[i]
        optional(key, v) == IF v = Undefined THEN <<>> ELSE <<key>> \o Str(v)
    IN <<"{", "name:", step.name, "type:", step.type, "settings:{">>
         \o optional("pieceVersion:", step.pieceVersion)
         \o optional("input.auth:", step.auth)
         \o optional("inputUiInfo:", step.inputUiInfo)
         \o <<"}">>
         \o (IF i < Len(steps)
             THEN <<"nextAction:">> \o stringifySteps(steps, i + 1)
             ELSE <<>>)
         \o <<"}">>

stringify(trigger) == IF trigger = <<>> THEN <<>> ELSE stringifySteps(trigger, 1)

\* variant: line 198 left out
normalizeStepKeepingVersion(step) ==
    LET authExists == step.auth # Undefined /\ step.auth # <<>>
        clonedStep == [step EXCEPT !.inputUiInfo = DEFAULT_SAMPLE_DATA_SETTINGS]
    IN IF step.type \in PieceTypes
       THEN [clonedStep EXCEPT !.auth = IF authExists THEN <<>> ELSE @]
       ELSE clonedStep

\* variant: line 194 left out
normalizeStepKeepingSampleData(step) ==
    LET authExists == step.auth # Undefined /\ step.auth # <<>>
        clonedStep == step
    IN IF step.type \in PieceTypes
       THEN [clonedStep EXCEPT !.pieceVersion = <<>>,
                               !.auth = IF authExists THEN <<>> ELSE @]
       ELSE clonedStep

\* the step callback of normalize, lines 192-204
normalizeStep(step) ==
    LET authExists == step.auth # Undefined /\ step.auth # <<>>
        clonedStep == [step EXCEPT !.inputUiInfo = DEFAULT_SAMPLE_DATA_SETTINGS]
    IN IF step.type \in PieceTypes
       THEN [clonedStep EXCEPT !.pieceVersion = <<>>,
                               !.auth = IF authExists THEN <<>> ELSE @]
       ELSE clonedStep

normalize(flowVersion) ==
    LET flowUpgradable == makeFlowAutoUpgradable(flowVersion)
    IN transferFlow(flowUpgradable, normalizeStep)

\* the Map built at lines 162-175: step name -> pieceVersion of the PIECE-typed
\* steps (a later step of the same name overwrites an earlier one)
versionSet(steps) ==
    LET pieces == filter(steps, LAMBDA step : step.type \in PieceTypes)
    IN [key \in {pieces[i].name : i \in DOMAIN pieces} |->
           pieces[CHOOSE i \in DOMAIN pieces :
                      /\ pieces[i].name = key
                      /\ \A j \in (i + 1)..Len(pieces) : pieces[j].name # key].pieceVersion]

isFlowChanged(fromFlow, targetFlow) ==
    LET normalizedFromFlow == normalize(fromFlow.version)
        normalizedTargetFlow == normalize(targetFlow.version)
        versionSetOne == versionSet(getAllSteps(normalizedFromFlow.trigger))
        versionSetTwo == versionSet(getAllSteps(normalizedTargetFlow.trigger))
        isMatched ==
            \A key \in DOMAIN versionSetOne :
                LET value == versionSetOne[key]
                    versionTwo == IF key \in DOMAIN versionSetTwo
                                  THEN versionSetTwo[key] ELSE Undefined
                IN IF isNil(versionTwo) \/ isNil(value)
                   THEN FALSE
                   ELSE isSameVersion(versionTwo, value)
    IN \/ normalizedFromFlow.displayName # normalizedTargetFlow.displayName
       \/ stringify(normalizedFromFlow.trigger) # stringify(normalizedTargetFlow.trigger)
       \/ ~isMatched

-----------------------------------------------------------------------------
(* Connections and tables *)

\* variant: === for !==
isConnectionChangedSameName(stateOne, stateTwo) ==
    stateOne.pieceName = stateTwo.pieceName

isConnectionChanged(stateOne, stateTwo) ==
    stateOne.pieceName # stateTwo.pieceName

\* an element of the fieldsMetadata arrays of lines 66-75
fieldMetadata(field) ==
    [name |-> field.name, type |-> field.type,
     data |-> IF field.type = "STATIC_DROPDOWN" THEN field.data ELSE Undefined]

\* JSON.stringify of a fieldsMetadata array
RECURSIVE stringifyFields(_)
stringifyFields(fields) ==
    IF fields = <<>> THEN <<>>
    ELSE LET field == Head(fields)
         IN <<"{", "name:", field.name, "type:", field.type>>
              \o (IF field.data = Undefined THEN <<>> ELSE <<"data:">> \o Str(field.data))
              \o <<"}">>
              \o stringifyFields(Tail(fields))

\* variant: data kept for every field type
isTableChangedAnyData(stateOne, stateTwo) ==
    LET fieldsMetadataOne == stateOne.fields
        fieldsMetadataTwo == stateTwo.fields
    IN \/ stateOne.name # stateTwo.name
       \/ stringifyFields(fieldsMetadataOne) # stringifyFields(fieldsMetadataTwo)

isTableChanged(stateOne, stateTwo) ==
    LET fieldsMetadataOne == map(stateOne.fields, fieldMetadata)
        fieldsMetadataTwo == map(stateTwo.fields, fieldMetadata)
    IN \/ stateOne.name # stateTwo.name
       \/ stringifyFields(fieldsMetadataOne) # stringifyFields(fieldsMetadataTwo)

\* an optional collection: a missing one is iterated and searched as empty
collection(state, key) == IF key \in DOMAIN state THEN state[key] ELSE <<>>

\* variant: the !isNil(connectionState) test of line 85 left out
getFlowConnectionsWithRemovals(current, new) ==
    LET currentConnections == collection(current, "connections")
        newConnections == collection(new, "connections")
        counterpart(connection) ==
            find(newConnections, LAMBDA c : c.externalId = connection.externalId)
        existing(connection) ==
            find(currentConnections, LAMBDA c : c.externalId = connection.externalId)
        updated == filter(currentConnections, LAMBDA connection :
                       ~counterpart(connection).found
                           \/ isConnectionChanged(counterpart(connection).value, connection))
        created == filter(newConnections, LAMBDA connection :
                       ~existing(connection).found)
    IN map(updated, LAMBDA connection :
               [type |-> "UPDATE_CONNECTION", connectionState |-> connection,
                newConnectionState |->
                    IF counterpart(connection).found
                    THEN counterpart(connection).value ELSE connection])
       \o map(created, LAMBDA connection :
               [type |-> "CREATE_CONNECTION", connectionState |-> connection])

getFlowConnections(current, new) ==
    LET currentConnections == collection(current, "connections")
        newConnections == collection(new, "connections")
        counterpart(connection) ==
            find(newConnections, LAMBDA c : c.externalId = connection.externalId)
        existing(connection) ==
            find(currentConnections, LAMBDA c : c.externalId = connection.externalId)
        updated == filter(currentConnections, LAMBDA connection :
                       /\ counterpart(connection).found
                       /\ isConnectionChanged(counterpart(connection).value, connection))
        created == filter(newConnections, LAMBDA connection :
                       ~existing(connection).found)
    IN map(updated, LAMBDA connection :
               [type |-> "UPDATE_CONNECTION", connectionState |-> connection,
                newConnectionState |-> counterpart(connection).value])
       \o map(created, LAMBDA connection :
               [type |-> "CREATE_CONNECTION", connectionState |-> connection])

getTables(current, new) ==
    LET currentTables == collection(current, "tables")
        newTables == collection(new, "tables")
        counterpart(table) ==
            find(newTables, LAMBDA t : t.externalId = table.externalId)
        existing(table) ==
            find(currentTables, LAMBDA t : t.externalId = table.externalId)
        updated == filter(currentTables, LAMBDA table :
                       /\ counterpart(table).found
                       /\ isTableChanged(counterpart(table).value, table))
        created == filter(newTables, LAMBDA table : ~existing(table).found)
    IN map(updated, LAMBDA table :
               [type |-> "UPDATE_TABLE", tableState |-> table,
                newTableState |-> counterpart(table).value])
       \o map(created, LAMBDA table :
               [type |-> "CREATE_TABLE", tableState |-> table])

-----------------------------------------------------------------------------
(* Flow operations *)

searchInFlowForFlowByIdOrExternalId(flows, externalId) ==
    find(flows, LAMBDA flow : flow.externalId = externalId)

\* variant: the filter of lines 21-24 left out
findFlowsToCreateUnfiltered(new, current) ==
    map(new.flows, LAMBDA flowState : [type |-> "CREATE_FLOW", flowState |-> flowState])

findFlowsToCreate(new, current) ==
    map(filter(new.flows, LAMBDA newFlow :
                   ~searchInFlowForFlowByIdOrExternalId(current.flows,
                                                        newFlow.externalId).found),
        LAMBDA flowState : [type |-> "CREATE_FLOW", flowState |-> flowState])

findFlowsToDelete(new, current) ==
    map(filter(current.flows, LAMBDA currentFlowFromState :
                   ~find(new.flows, LAMBDA flowFromNewState :
                             currentFlowFromState.externalId
                                 = flowFromNewState.externalId).found),
        LAMBDA flowState : [type |-> "DELETE_FLOW", flowState |-> flowState])

\* findFlowsToUpdate, lines 39-42: the flows of newState that currentState has
matchedFlows(new, current) ==
    filter(new.flows, LAMBDA state :
               searchInFlowForFlowByIdOrExternalId(current.flows, state.externalId).found)

\* findFlowsToUpdate, lines 44-56: what the task mapped over one flow resolves to
updateTask(flowFromNewState, current) ==
    LET os == searchInFlowForFlowByIdOrExternalId(current.flows,
                                                  flowFromNewState.externalId).value
    IN IF isFlowChanged(os, flowFromNewState)
       THEN [type |-> "UPDATE_FLOW", flowState |-> os, newFlowState |-> flowFromNewState]
       ELSE Null

\* variant: the results in the order in which the tasks resolved
promiseAllByCompletion(results, order) ==
    [k \in DOMAIN order |-> results[order[k]]]

\* Promise.all: the results in the order of the tasks
promiseAll(results, order) == results

\* variant: create before delete
operationsCreateFirst(deleted, created, updated) == created \o deleted \o updated

\* diff, line 9
operations(deleted, created, updated) == deleted \o created \o updated

-----------------------------------------------------------------------------
(* The project states diff is called with *)

ExternalIds == {"a", "b", "c"}

\* the sequences of at most MaxEntities elements of S with distinct externalIds
Collections(S) ==
    UNION {{c \in [1..n -> S] :
                \A i \in 1..n : \A j \in 1..n : c[i].externalId = c[j].externalId => i = j}
            : n \in 0..MaxEntities}

Step(name, type, pieceVersion, auth, inputUiInfo) ==
    [name |-> name, type |-> type, pieceVersion |-> pieceVersion, auth |-> auth,
     inputUiInfo |-> inputUiInfo]

PieceVersions ==
    {Version(1, 0, 0), Version(1, 4, 2), Version(0, 1, 0), Version(0, 2, 0), <<>>, Undefined}

Triggers ==
    {Step("trigger", type, pieceVersion, <<"c", "1">>, DEFAULT_SAMPLE_DATA_SETTINGS) :
         type \in {"PIECE_TRIGGER", "EMPTY"}, pieceVersion \in PieceVersions}

Actions ==
    {Step("step_1", "PIECE", Version(1, 0, 0), <<"c", "1">>, <<"s">>),
     Step("step_1", "PIECE", Version(1, 4, 2), <<"c", "2">>, Undefined),
     Step("step_1", "CODE", Undefined, <<"c", "1">>, <<"s">>)}

\* flow versions of one or two steps
FlowVersions ==
    {[displayName |-> displayName, trigger |-> steps] :
         displayName \in {"A", "B"},
         steps \in {<<t>> : t \in Triggers}
                       \cup {<<t, a>> : t \in Triggers, a \in Actions}}

\* the two flow versions of the flows of the larger collections
PlainFlowVersions ==
    {[displayName |-> displayName,
      trigger |-> <<Step("trigger", "PIECE_TRIGGER", Version(1, 0, 0), Undefined,
                         DEFAULT_SAMPLE_DATA_SETTINGS)>>] : displayName \in {"A", "B"}}

PlainFlows ==
    {[externalId |-> id, version |-> v] : id \in ExternalIds, v \in PlainFlowVersions}

Connections ==
    {[externalId |-> id, pieceName |-> pieceName] :
         id \in ExternalIds, pieceName \in {"slack", "gmail"}}

Field(name, type, data) == [name |-> name, type |-> type, data |-> data]

PlainTables ==
    {[externalId |-> id, name |-> "T", fields |-> <<Field("f", "STATIC_DROPDOWN", data)>>] :
         id \in ExternalIds, data \in {<<"x">>, <<"y">>}}

\* no collection but the flows; one flow on each side, of any flow version
FlowPairStates ==
    {<<[flows |-> <<[externalId |-> "a", version |-> v]>>],
       [flows |-> <<[externalId |-> "a", version |-> w]>>]>> :
         v \in FlowVersions, w \in FlowVersions}

\* no collection but the flows; up to MaxEntities plain flows on each side
FlowSetStates ==
    {<<[flows |-> c], [flows |-> n]>> :
         c \in Collections(PlainFlows), n \in Collections(PlainFlows)}

\* no flows and connections, present or missing, on each side
ConnectionStates ==
    LET sides == {[flows |-> <<>>]}
                     \cup {[flows |-> <<>>, connections |-> c] : c \in Collections(Connections)}
    IN sides \X sides

\* no flows and tables, present or missing, on each side
TableStates ==
    LET sides == {[flows |-> <<>>]}
                     \cup {[flows |-> <<>>, tables |-> t] : t \in Collections(PlainTables)}
    IN sides \X sides

\* the same state on both sides, with all three collections
SameStates ==
    {<<S, S>> : S \in
        {[flows |-> f, connections |-> c, tables |-> t] :
             f \in {<<>>} \cup {<<[externalId |-> id, version |-> v]>> :
                                    id \in {"a"}, v \in FlowVersions},
             c \in {<<>>, <<[externalId |-> "a", pieceName |-> "slack"]>>},
             t \in {<<>>, <<[externalId |-> "a", name |-> "T",
                             fields |-> <<Field("f", "TEXT", <<"x">>)>>]>>}}
         \cup {[flows |-> f] :
                    f \in {<<[externalId |-> id, version |-> v]>> :
                              id \in {"a"}, v \in FlowVersions}}}

-----------------------------------------------------------------------------
(* diff *)

Empty == [empty |-> TRUE]

Init ==
    /\ \E states \in FlowPairStates \cup FlowSetStates \cup ConnectionStates
                        \cup TableStates \cup SameStates :
           /\ currentState = states[1]
           /\ newState = states[2]
    /\ pc = "findFlowsToCreate"
    /\ createFlowOperation = Idle
    /\ deleteFlowOperation = Idle
    /\ newStateFiles = Idle
    /\ taskResult = Idle
    /\ completed = Idle
    /\ result = Idle
    /\ args = Idle
    /\ ret = Idle

\* line 6
FindFlowsToCreate ==
    /\ pc = "findFlowsToCreate"
    /\ createFlowOperation' = findFlowsToCreate(newState, currentState)
    /\ pc' = "findFlowsToDelete"
    /\ UNCHANGED <<currentState, newState, deleteFlowOperation, newStateFiles,
                   taskResult, completed, result, args, ret>>

\* line 7
FindFlowsToDelete ==
    /\ pc = "findFlowsToDelete"
    /\ deleteFlowOperation' = findFlowsToDelete(newState, currentState)
    /\ pc' = "findFlowsToUpdate"
    /\ UNCHANGED <<currentState, newState, createFlowOperation, newStateFiles,
                   taskResult, completed, result, args, ret>>

\* line 8, findFlowsToUpdate up to the call of Promise.all: one task a matched flow
FindFlowsToUpdate ==
    /\ pc = "findFlowsToUpdate"
    /\ newStateFiles' = matchedFlows(newState, currentState)
    /\ taskResult' = [i \in DOMAIN newStateFiles' |-> Empty]
    /\ completed' = <<>>
    /\ pc' = "Promise.all"
    /\ UNCHANGED <<currentState, newState, createFlowOperation, deleteFlowOperation,
                   result, args, ret>>

\* a task of Promise.all resolves; the tasks resolve in any order
UpdateTaskResolves ==
    /\ pc = "Promise.all"
    /\ \E i \in DOMAIN newStateFiles :
           /\ \A k \in DOMAIN completed : completed[k] # i
           /\ taskResult' = [taskResult EXCEPT ![i] = updateTask(newStateFiles[i], currentState)]
           /\ completed' = Append(completed, i)
    /\ UNCHANGED <<currentState, newState, pc, createFlowOperation, deleteFlowOperation,
                   newStateFiles, result, args, ret>>

\* Promise.all resolves, line 58 and lines 9-16
DiffReturns ==
    /\ pc = "Promise.all"
    /\ Len(completed) = Len(newStateFiles)
    /\ LET updateFlowOperations ==
               filter(promiseAll(taskResult, completed), LAMBDA op : op # Null)
       IN result' = [operations |-> operations(deleteFlowOperation, createFlowOperation,
                                               updateFlowOperations),
                     connections |-> getFlowConnections(currentState, newState),
                     tables |-> getTables(currentState, newState)]
    /\ pc' = "done"
    /\ UNCHANGED <<currentState, newState, createFlowOperation, deleteFlowOperation,
                   newStateFiles, taskResult, completed, args, ret>>

Next ==
    \/ FindFlowsToCreate
    \/ FindFlowsToDelete
    \/ FindFlowsToUpdate
    \/ UpdateTaskResolves
    \/ DiffReturns

Spec == Init /\ [][Next]_vars

-----------------------------------------------------------------------------
(* Properties of diff *)

Done == pc = "done"

flowIds(state) == {state.flows[i].externalId : i \in DOMAIN state.flows}

flowOf(state, id) == searchInFlowForFlowByIdOrExternalId(state.flows, id).value

\* the place of the flow of that externalId in the flows of state
flowIndex(state, id) == CHOOSE i \in DOMAIN state.flows : state.flows[i].externalId = id

opsOfType(ops, type) == filter(ops, LAMBDA op : op.type = type)

\* the flow operations that refer to the externalId
flowOpsOf(id) ==
    filter(result.operations, LAMBDA op :
               \/ op.flowState.externalId = id
               \/ op.type = "UPDATE_FLOW" /\ op.newFlowState.externalId = id)

\* the flows of the two states are one flow each, of the same externalId, and
\* differ in nothing but the pieceVersion of the PIECE-typed step k, a semantic
\* version on both sides
DifferOnlyInPieceVersion(k) ==
    /\ Len(currentState.flows) = 1 /\ Len(newState.flows) = 1
    /\ LET from == currentState.flows[1]
           target == newState.flows[1]
       IN /\ from.externalId = target.externalId
          /\ k \in DOMAIN from.version.trigger
          /\ k \in DOMAIN target.version.trigger
          /\ from.version.trigger[k].type \in PieceTypes
          /\ from.version.trigger[k].pieceVersion # Undefined
          /\ target.version.trigger[k].pieceVersion # Undefined
          /\ semverParse(from.version.trigger[k].pieceVersion) # Null
          /\ semverParse(target.version.trigger[k].pieceVersion) # Null
          /\ from.version.trigger[k].pieceVersion # target.version.trigger[k].pieceVersion
          /\ target.version
                = [from.version EXCEPT
                       !.trigger[k].pieceVersion = target.version.trigger[k].pieceVersion]

\* C1: two flows that differ in the pieceVersion of one PIECE-typed step only give
\* an UPDATE_FLOW exactly if the two pieceVersion strings are not compatible under
\* isSameVersion.
UpdateIffVersionsIncompatible ==
    Done =>
        \A k \in 1..MaxSteps :
            DifferOnlyInPieceVersion(k) =>
                LET from == currentState.flows[1]
                    target == newState.flows[1]
                    compatible == isSameVersion(from.version.trigger[k].pieceVersion,
                                                target.version.trigger[k].pieceVersion)
                IN /\ compatible => result.operations = <<>>
                   /\ ~compatible =>
                          result.operations
                            = <<[type |-> "UPDATE_FLOW", flowState |-> from,
                                 newFlowState |-> target]>>

\* C2: diff of a state with itself returns no operation of any kind.
DiffOfSameStateIsEmpty ==
    (Done /\ currentState = newState) =>
        result = [operations |-> <<>>, connections |-> <<>>, tables |-> <<>>]

SameStateWithUndefinedVersionDiffed ==
    /\ Done /\ currentState = newState
    /\ "connections" \in DOMAIN currentState /\ currentState.connections # <<>>
    /\ "tables" \in DOMAIN currentState /\ currentState.tables # <<>>
    /\ \E i \in DOMAIN currentState.flows :
           \E k \in DOMAIN currentState.flows[i].version.trigger :
               /\ currentState.flows[i].version.trigger[k].type \in PieceTypes
               /\ currentState.flows[i].version.trigger[k].pieceVersion = Undefined
    /\ result.operations = <<>>

\* C3: for every externalId the flow operations are one DELETE_FLOW of the
\* current flow if only currentState has it, one CREATE_FLOW of the new flow if
\* only newState has it, nothing or one UPDATE_FLOW (current flow, new flow) if
\* both have it, and nothing if neither has it.
FlowOperationsClassifyEachFlow ==
    Done =>
        \A id \in ExternalIds :
            LET inCurrent == id \in flowIds(currentState)
                inNew == id \in flowIds(newState)
                ops == flowOpsOf(id)
            IN /\ (inCurrent /\ ~inNew) =>
                      ops = <<[type |-> "DELETE_FLOW",
                               flowState |-> flowOf(currentState, id)]>>
               /\ (~inCurrent /\ inNew) =>
                      ops = <<[type |-> "CREATE_FLOW",
                               flowState |-> flowOf(newState, id)]>>
               /\ (inCurrent /\ inNew) =>
                      \/ ops = <<>>
                      \/ ops = <<[type |-> "UPDATE_FLOW",
                                  flowState |-> flowOf(currentState, id),
                                  newFlowState |-> flowOf(newState, id)]>>
               /\ (~inCurrent /\ ~inNew) => ops = <<>>

DeleteCreateAndUpdateEmitted ==
    /\ Done
    /\ flowIds(currentState) = {"a", "b"}
    /\ flowIds(newState) = {"b", "c"}
    /\ Len(flowOpsOf("a")) = 1 /\ Len(flowOpsOf("b")) = 1 /\ Len(flowOpsOf("c")) = 1

typeRank(type) ==
    CASE type = "DELETE_FLOW" -> 0
      [] type = "CREATE_FLOW" -> 1
      [] type = "UPDATE_FLOW" -> 2

\* C4: in the operations every DELETE_FLOW comes before every CREATE_FLOW and
\* every CREATE_FLOW before every UPDATE_FLOW.
DeletesThenCreatesThenUpdates ==
    Done =>
        \A i \in DOMAIN result.operations : \A j \in DOMAIN result.operations :
            i < j => typeRank(result.operations[i].type) <= typeRank(result.operations[j].type)

\* newState lists the updated flow before the created one, currentState the
\* updated flow before the deleted one
AllCategoriesAgainstInputOrder ==
    /\ Done
    /\ Len(result.operations) = 3
    /\ result.operations[1].type = "DELETE_FLOW"
    /\ result.operations[2].type = "CREATE_FLOW"
    /\ result.operations[3].type = "UPDATE_FLOW"
    /\ newState.flows[1].externalId = result.operations[3].flowState.externalId
    /\ currentState.flows[1].externalId = result.operations[3].flowState.externalId

connectionIds(state) ==
    {collection(state, "connections")[i].externalId :
         i \in DOMAIN collection(state, "connections")}

tableIds(state) ==
    {collection(state, "tables")[i].externalId : i \in DOMAIN collection(state, "tables")}

connectionOf(state, id) ==
    find(collection(state, "connections"), LAMBDA c : c.externalId = id).value

tableOf(state, id) ==
    find(collection(state, "tables"), LAMBDA t : t.externalId = id).value

\* C7: the connection operations and the table operations are, for every
\* externalId, one CREATE of the new entity if only newState has it, one UPDATE
\* (current entity, new entity) if both have it and it changed, and nothing
\* otherwise; there is no DELETE.
ConnectionsAndTablesCreateOrUpdate ==
    Done =>
        /\ \A id \in ExternalIds :
               LET inCurrent == id \in connectionIds(currentState)
                   inNew == id \in connectionIds(newState)
                   ops == filter(result.connections, LAMBDA op :
                              \/ op.connectionState.externalId = id
                              \/ /\ op.type = "UPDATE_CONNECTION"
                                 /\ op.newConnectionState.externalId = id)
               IN ops = IF ~inCurrent /\ inNew
                        THEN <<[type |-> "CREATE_CONNECTION",
                                connectionState |-> connectionOf(newState, id)]>>
                        ELSE IF inCurrent /\ inNew
                                  /\ connectionOf(currentState, id).pieceName
                                        # connectionOf(newState, id).pieceName
                        THEN <<[type |-> "UPDATE_CONNECTION",
                                connectionState |-> connectionOf(currentState, id),
                                newConnectionState |-> connectionOf(newState, id)]>>
                        ELSE <<>>
        /\ \A id \in ExternalIds :
               LET inCurrent == id \in tableIds(currentState)
                   inNew == id \in tableIds(newState)
                   ops == filter(result.tables, LAMBDA op :
                              \/ op.tableState.externalId = id
                              \/ /\ op.type = "UPDATE_TABLE"
                                 /\ op.newTableState.externalId = id)
               IN ops = IF ~inCurrent /\ inNew
                        THEN <<[type |-> "CREATE_TABLE",
                                tableState |-> tableOf(newState, id)]>>
                        ELSE IF inCurrent /\ inNew
                                  /\ isTableChanged(tableOf(currentState, id),
                                                    tableOf(newState, id))
                        THEN <<[type |-> "UPDATE_TABLE",
                                tableState |-> tableOf(currentState, id),
                                newTableState |-> tableOf(newState, id)]>>
                        ELSE <<>>
        /\ \A i \in DOMAIN result.connections :
               result.connections[i].type \in {"CREATE_CONNECTION", "UPDATE_CONNECTION"}
        /\ \A i \in DOMAIN result.tables :
               result.tables[i].type \in {"CREATE_TABLE", "UPDATE_TABLE"}

\* a connection only in currentState, one changed, one only in newState
RemovedChangedAndNewConnection ==
    /\ Done
    /\ connectionIds(currentState) = {"a", "b"}
    /\ connectionIds(newState) = {"b", "c"}
    /\ Len(result.connections) = 2
    /\ result.connections[1].type = "UPDATE_CONNECTION"
    /\ result.connections[2].type = "CREATE_CONNECTION"

\* the places in the flows of state of the flows the operations carry, in the
\* order of the operations
placesIn(state, ops) == [i \in DOMAIN ops |-> flowIndex(state, ops[i].flowState.externalId)]

Increasing(s) == \A i \in DOMAIN s : \A j \in DOMAIN s : i < j => s[i] < s[j]

\* C10: whatever the order in which the update tasks resolve, the UPDATE_FLOW
\* operations are in the order of their flows in newState.flows, the CREATE_FLOW
\* operations too, and the DELETE_FLOW operations in that of currentState.flows.
OperationsKeepInputOrder ==
    Done =>
        /\ Increasing(placesIn(newState, opsOfType(result.operations, "UPDATE_FLOW")))
        /\ Increasing(placesIn(newState, opsOfType(result.operations, "CREATE_FLOW")))
        /\ Increasing(placesIn(currentState, opsOfType(result.operations, "DELETE_FLOW")))

\* the task of the second flow resolved before the task of the first
UpdatesResolvedOutOfOrder ==
    /\ Done
    /\ completed = <<2, 1>>
    /\ Len(opsOfType(result.operations, "UPDATE_FLOW")) = 2

-----------------------------------------------------------------------------
(* Version strings the calls are made with *)

Prefixes == {<<>>, <<"^">>, <<"~">>}

ExactVersions ==
    {Version(ma, mi, pa) : ma \in 0..MaxNum, mi \in 0..MaxNum, pa \in 0..MaxNum}
        \cup {Version(1, 9, 3), Version(0, 3, 0), Version(0, 2, 9), Version(10, 0, 1)}

Unparseable ==
    {<<>>, <<"x">>, <<"1", ".", "0">>, <<"0", "1", ".", "0", ".", "0">>,
     <<"1", ".", "0", ".", "0", ".", "0">>, <<"1", ".", ".", "0">>}

VersionStrings ==
    {p \o v : p \in Prefixes, v \in ExactVersions} \cup Unparseable \cup {<<"^", "x">>}

-----------------------------------------------------------------------------
(* Calls of isSameVersion: (a, b), then (b, a), then (a, a) *)

InitVersion ==
    /\ \E a \in VersionStrings, b \in VersionStrings :
           args = <<<<a, b>>, <<b, a>>, <<a, a>>>>
    /\ ret = <<>>
    /\ pc = "isSameVersion"
    /\ currentState = Idle /\ newState = Idle
    /\ createFlowOperation = Idle /\ deleteFlowOperation = Idle
    /\ newStateFiles = Idle /\ taskResult = Idle /\ completed = Idle
    /\ result = Idle

CallIsSameVersion ==
    /\ pc = "isSameVersion"
    /\ Len(ret) < Len(args)
    /\ ret' = Append(ret, isSameVersion(args[Len(ret) + 1][1], args[Len(ret) + 1][2]))
    /\ UNCHANGED <<currentState, newState, pc, createFlowOperation, deleteFlowOperation,
                   newStateFiles, taskResult, completed, result, args>>

NextVersion == CallIsSameVersion

SpecVersion == InitVersion /\ [][NextVersion]_vars

\* the comparator as the specification words it
SameVersionReference(a, b) ==
    LET ra == getExactVersion(a)
        rb == getExactVersion(b)
        pa == semverParse(ra)
        pb == semverParse(rb)
    IN CASE pa = Null \/ pb = Null -> ra = rb
         [] pa # Null /\ pb # Null /\ (pa.major >= 1 \/ pb.major >= 1) ->
                pa.major = pb.major
         [] OTHER -> pa.major = pb.major /\ pa.minor = pb.minor

\* v with its patch component replaced by patch (v resolves to a semantic version)
WithPatch(v, patch) ==
    LET pv == semverParse(getExactVersion(v))
        prefix == IF getExactVersion(v) = v THEN <<>> ELSE <<v[1]>>
    IN prefix \o Version(pv.major, pv.minor, patch)

\* C5: isSameVersion(a, b) is the reference comparator (string equality of the
\* resolved strings when either does not parse, equal majors when either major
\* is >= 1, equal majors and minors otherwise), whatever the patch component of
\* a is, and gives the three results the specification lists.
IsSameVersionIsReference ==
    (pc = "isSameVersion" /\ Len(ret) >= 1) =>
        LET a == args[1][1]
            b == args[1][2]
        IN /\ ret[1] = SameVersionReference(a, b)
           /\ semverParse(getExactVersion(a)) # Null =>
                  \A patch \in 0..MaxNum :
                      ret[1] = SameVersionReference(WithPatch(a, patch), b)
           /\ (a = Version(1, 2, 0) /\ b = Version(1, 9, 3)) => ret[1] = TRUE
           /\ (a = Version(0, 2, 0) /\ b = Version(0, 3, 0)) => ret[1] = FALSE
           /\ (a = Version(0, 2, 1) /\ b = Version(0, 2, 9)) => ret[1] = TRUE

PreOneMinorBumpCompared ==
    /\ pc = "isSameVersion" /\ Len(ret) >= 1
    /\ args[1] = <<Version(0, 2, 0), Version(0, 3, 0)>>
    /\ ret[1] = FALSE

\* C6: isSameVersion(a, b) = isSameVersion(b, a) and isSameVersion(a, a) is TRUE,
\* for parseable and unparseable version strings alike.
IsSameVersionReflexiveSymmetric ==
    (pc = "isSameVersion" /\ Len(ret) = 3) =>
        /\ ret[1] = ret[2]
        /\ ret[3] = TRUE

BothOrdersCompared ==
    /\ pc = "isSameVersion" /\ Len(ret) = 3
    /\ args[1] = <<<<"^", "x">>, <<"x">>>>
    /\ ret = <<TRUE, TRUE, TRUE>>

-----------------------------------------------------------------------------
(* Calls of isTableChanged *)

Fields ==
    {Field("f", type, data) :
         type \in {"TEXT", "STATIC_DROPDOWN"}, data \in {Undefined, <<"x">>, <<"y">>}}
        \cup {Field("g", "TEXT", Undefined)}

FieldLists == UNION {[1..n -> Fields] : n \in 0..MaxFields}

InitTable ==
    /\ \E name \in {"T", "U"}, fieldsOne \in FieldLists, fieldsTwo \in FieldLists :
           args = <<[externalId |-> "a", name |-> "T", fields |-> fieldsOne],
                    [externalId |-> "a", name |-> name, fields |-> fieldsTwo]>>
    /\ ret = <<>>
    /\ pc = "isTableChanged"
    /\ currentState = Idle /\ newState = Idle
    /\ createFlowOperation = Idle /\ deleteFlowOperation = Idle
    /\ newStateFiles = Idle /\ taskResult = Idle /\ completed = Idle
    /\ result = Idle

CallIsTableChanged ==
    /\ pc = "isTableChanged"
    /\ ret = <<>>
    /\ ret' = <<isTableChanged(args[1], args[2])>>
    /\ UNCHANGED <<currentState, newState, pc, createFlowOperation, deleteFlowOperation,
                   newStateFiles, taskResult, completed, result, args>>

NextTable == CallIsTableChanged

SpecTable == InitTable /\ [][NextTable]_vars

\* the (name, type, data) triples of the fields, data counting for the
\* STATIC_DROPDOWN fields only
triples(table) ==
    [i \in DOMAIN table.fields |->
        <<table.fields[i].name, table.fields[i].type,
          IF table.fields[i].type = "STATIC_DROPDOWN"
          THEN table.fields[i].data ELSE Undefined>>]

\* C8: two tables are changed exactly if their names differ or their fields
\* differ as sequences of (name, type, data), data counting only for the
\* STATIC_DROPDOWN fields: a TEXT field of another data is no change, a
\* STATIC_DROPDOWN field of another data is one.
TableChangedIffNameOrFieldsDiffer ==
    (pc = "isTableChanged" /\ ret # <<>>) =>
        /\ ret[1] = (args[1].name # args[2].name \/ triples(args[1]) # triples(args[2]))
        /\ \A data \in {<<"x">>, <<"y">>} :
               /\ (/\ args[1].name = args[2].name
                   /\ args[1].fields = <<Field("f", "TEXT", <<"x">>)>>
                   /\ args[2].fields = <<Field("f", "TEXT", data)>>) => ret[1] = FALSE
               /\ (/\ args[1].fields = <<Field("f", "STATIC_DROPDOWN", <<"x">>)>>
                   /\ args[2].fields = <<Field("f", "STATIC_DROPDOWN", data)>>
                   /\ data # <<"x">>) => ret[1] = TRUE

TextDataDriftCompared ==
    /\ pc = "isTableChanged" /\ ret = <<FALSE>>
    /\ args[1].fields = <<Field("f", "TEXT", <<"x">>), Field("f", "STATIC_DROPDOWN", <<"y">>)>>
    /\ args[2].fields = <<Field("f", "TEXT", <<"y">>), Field("f", "STATIC_DROPDOWN", <<"y">>)>>

-----------------------------------------------------------------------------
(* Calls of normalize: on a flow version, then on what that returned *)

StepNames == <<"trigger", "step_1", "step_2", "step_3", "step_4">>

StepsAt(k) ==
    {Step(StepNames[k], type, pieceVersion, auth, inputUiInfo) :
         type \in (IF k = 1 THEN {"PIECE_TRIGGER", "EMPTY"} ELSE {"PIECE", "CODE"}),
         pieceVersion \in {Version(1, 0, 0), <<>>, Undefined},
         auth \in {Undefined, <<>>, <<"c", "1">>},
         inputUiInfo \in {DEFAULT_SAMPLE_DATA_SETTINGS, <<"s">>}}

RECURSIVE StepListsOf(_)
StepListsOf(n) ==
    IF n = 1 THEN {<<step>> : step \in StepsAt(1)}
    ELSE {Append(steps, step) : steps \in StepListsOf(n - 1), step \in StepsAt(n)}

StepLists == UNION {StepListsOf(n) : n \in 1..MaxSteps}

InitNormalize ==
    /\ \E steps \in StepLists : args = <<[displayName |-> "A", trigger |-> steps]>>
    /\ ret = <<>>
    /\ pc = "normalize"
    /\ currentState = Idle /\ newState = Idle
    /\ createFlowOperation = Idle /\ deleteFlowOperation = Idle
    /\ newStateFiles = Idle /\ taskResult = Idle /\ completed = Idle
    /\ result = Idle

CallNormalize ==
    /\ pc = "normalize"
    /\ Len(ret) < 2
    /\ ret' = Append(ret, normalize(IF ret = <<>> THEN args[1] ELSE ret[Len(ret)]))
    /\ UNCHANGED <<currentState, newState, pc, createFlowOperation, deleteFlowOperation,
                   newStateFiles, taskResult, completed, result, args>>

NextNormalize == CallNormalize

SpecNormalize == InitNormalize /\ [][NextNormalize]_vars

\* C9: normalize of a normalized flow version is that flow version: every
\* inputUiInfo is still the default, and the pieceVersion and a present auth of
\* every PIECE-typed step are still empty.
NormalizeIdempotent ==
    (pc = "normalize" /\ Len(ret) = 2) =>
        /\ ret[2] = ret[1]
        /\ stringify(ret[2].trigger) = stringify(ret[1].trigger)
        /\ \A k \in DOMAIN ret[2].trigger :
               LET step == ret[2].trigger[k]
               IN /\ step.inputUiInfo = DEFAULT_SAMPLE_DATA_SETTINGS
                  /\ step.type \in PieceTypes =>
                         /\ step.pieceVersion = <<>>
                         /\ args[1].trigger[k].auth # Undefined => step.auth = <<>>

NormalizedTwice ==
    /\ pc = "normalize" /\ Len(ret) = 2
    /\ Len(args[1].trigger) = 2
    /\ args[1].trigger[2] = Step("step_1", "PIECE", Version(1, 0, 0), <<"c", "1">>, <<"s">>)
    /\ ret[2].trigger[2]
         = Step("step_1", "PIECE", <<>>, <<>>, DEFAULT_SAMPLE_DATA_SETTINGS)

====
